---------------------------- MODULE Spec2Model ----------------------------
(***************************************************************************)
(* A model of moneymate-scraper: the Gmail client's OAuth token lifecycle  *)
(* and message fetch (services/gmail_client.py), the receipt parser        *)
(* (services/receipt_parser.py), the entry point's batch loop (main.py),   *)
(* the Transaction model (models/transaction.py) and the Settings object   *)
(* (config.py).                                                            *)
(*                                                                         *)
(* Four specifications share the variables:                                *)
(*   Spec            a GmailClient whose public operations are called in   *)
(*                   any order by its owner;                               *)
(*   SpecMain        one run of main(): authenticate, fetch, parse each    *)
(*                   message;                                              *)
(*   SpecTransaction construction of Transaction objects;                  *)
(*   SpecSettings    construction of Settings objects.                     *)
(***************************************************************************)
EXTENDS Integers, Sequences, FiniteSets, TLC

VARIABLES
    tokenFile,        \* the file at _token_path: absent, corrupt, or a stored token
    credentialsFile,  \* whether the file at _credentials_path exists
    _service,         \* GmailClient._service: "None" or "Resource"
    apiRequests,      \* number of requests issued to the mail API so far
    raw_messages,     \* the list fetch_recent_receipts returned last
    last,             \* the last GmailClient call: operation, exception, path, write
    pc,               \* main(): position in the function
    idx,              \* main(): index of the next message of the for loop
    outcomes,         \* main(): what parse returned, one entry per call
    warnings,         \* the logger: message ids the parser warned about
    txn,              \* the result of the last Transaction(...) call
    settings,         \* the last Settings object built
    settingsEnv       \* the .env file and the environment it was built from

vars == <<tokenFile, credentialsFile, _service, apiRequests, raw_messages, last,
          pc, idx, outcomes, warnings, txn, settings, settingsEnv>>

clientVars == <<tokenFile, credentialsFile, _service, apiRequests, raw_messages, last>>
mainVars   == <<pc, idx, outcomes, warnings>>
modelVars  == <<txn, settings, settingsEnv>>

(***************************************************************************)
(* Bounds.                                                                 *)
(***************************************************************************)
MaxResults  == 2   \* longest list of messages the mail API returns
MaxRequests == 4   \* mail API requests counted in one behaviour of Spec
MaxAmount   == 2   \* Transaction amounts range over -MaxAmount..MaxAmount

(***************************************************************************)
(* Credentials (google.oauth2.credentials.Credentials) as the client reads *)
(* them: whether there is an access token, whether it is past its expiry,  *)
(* whether there is a refresh token.                                       *)
(***************************************************************************)
NoCreds == [some |-> FALSE, token |-> FALSE, expired |-> FALSE, refresh |-> FALSE]

CredsSet == {[some |-> TRUE, token |-> t, expired |-> e, refresh |-> r] :
                t \in BOOLEAN, e \in BOOLEAN, r \in BOOLEAN}

\* Credentials.valid: a token is present and it is not expired.
Valid(creds) == creds.token /\ ~creds.expired

\* The token file: absent, unreadable, or the JSON of some credentials.
TokenFiles ==
    {[kind |-> "absent", creds |-> NoCreds], [kind |-> "corrupt", creds |-> NoCreds]}
    \cup {[kind |-> "token", creds |-> c] : c \in CredsSet}

\* What the libraries outside the repository may do during one authenticate():
\* whether the refresh request, the consent flow and the service build succeed,
\* and whether the consent flow hands back a refresh token.
AuthEnvs == [refreshOk : BOOLEAN, consentOk : BOOLEAN, consentRefresh : BOOLEAN,
             buildOk : BOOLEAN]

(***************************************************************************)
(* GmailClient.authenticate, step by step.                                 *)
(***************************************************************************)

\* Step 1: load the cached token when the file exists.
LoadToken(tf) ==
    IF tf.kind = "absent" THEN [raised |-> "", creds |-> NoCreds]
    ELSE IF tf.kind = "corrupt" THEN [raised |-> "ValueError", creds |-> NoCreds]
    ELSE [raised |-> "", creds |-> tf.creds]

\* Step 2 with "or" for "and" between expired and refresh_token.
SelectPathAnyExpired(creds) ==
    IF creds.some /\ (creds.expired \/ creds.refresh) THEN "refresh"
    ELSE IF ~creds.some \/ ~Valid(creds) THEN "consent"
    ELSE "reuse"

\* Step 2: the branch taken on the loaded credentials.
SelectPath(creds) ==
    IF creds.some /\ creds.expired /\ creds.refresh THEN "refresh"
    ELSE IF ~creds.some \/ ~Valid(creds) THEN "consent"
    ELSE "reuse"

\* creds.refresh(Request()): a fresh access token, or RefreshError.
Refresh(creds, env) ==
    IF env.refreshOk
    THEN [raised |-> "", creds |-> [creds EXCEPT !.token = TRUE, !.expired = FALSE]]
    ELSE [raised |-> "RefreshError", creds |-> creds]

\* The consent branch without the check that the credentials file exists.
ConsentFlowUnchecked(credsExists, env) ==
    IF ~env.consentOk THEN [raised |-> "FlowError", creds |-> NoCreds]
    ELSE [raised |-> "",
          creds |-> [some |-> TRUE, token |-> TRUE, expired |-> FALSE,
                     refresh |-> env.consentRefresh]]

\* The consent branch: the credentials file must exist, then the browser flow runs.
ConsentFlow(credsExists, env) ==
    IF ~credsExists THEN [raised |-> "FileNotFoundError", creds |-> NoCreds]
    ELSE IF ~env.consentOk THEN [raised |-> "FlowError", creds |-> NoCreds]
    ELSE [raised |-> "",
          creds |-> [some |-> TRUE, token |-> TRUE, expired |-> FALSE,
                     refresh |-> env.consentRefresh]]

\* Steps 1 and 2 together: the credentials authenticate() ends up with.
ObtainCreds(tf, credsExists, env) ==
    LET loaded == LoadToken(tf) IN
    IF loaded.raised # "" THEN [raised |-> loaded.raised, creds |-> NoCreds, path |-> ""]
    ELSE LET path == SelectPath(loaded.creds)
             got  == CASE path = "refresh" -> Refresh(loaded.creds, env)
                       [] path = "consent" -> ConsentFlow(credsExists, env)
                       [] OTHER            -> [raised |-> "", creds |-> loaded.creds]
         IN  [raised |-> got.raised, creds |-> got.creds, path |-> path]

\* The whole method: the new token file, the new _service and what was raised.
authenticate(tf, credsExists, svc, env) ==
    LET got == ObtainCreds(tf, credsExists, env) IN
    IF got.raised # ""
    THEN [tokenFile |-> tf, service |-> svc, raised |-> got.raised,
          path |-> got.path, wrote |-> FALSE, creds |-> got.creds]
    ELSE LET written == IF got.creds.some
                        THEN [kind |-> "token", creds |-> got.creds] ELSE tf
         IN  [tokenFile |-> written,
              service   |-> IF env.buildOk THEN "Resource" ELSE svc,
              raised    |-> IF env.buildOk THEN "" ELSE "BuildError",
              path      |-> got.path,
              wrote     |-> got.creds.some,
              creds     |-> got.creds]

Authenticate ==
    \E env \in AuthEnvs :
        LET r == authenticate(tokenFile, credentialsFile, _service, env) IN
        /\ tokenFile' = r.tokenFile
        /\ _service' = r.service
        /\ last' = [op |-> "authenticate", raised |-> r.raised, path |-> r.path,
                    wrote |-> r.wrote, creds |-> r.creds]
        /\ UNCHANGED <<credentialsFile, apiRequests, raw_messages>>


(***************************************************************************)
(* Raw Gmail messages: dicts. Only the key "id" is read by the code; the   *)
(* sender, the subject (a list of words) and the body (a list of lines)    *)
(* stand for the headers and parts of the full payload.                    *)
(***************************************************************************)
RideAReceipt == [id |-> "m1", from |-> "gojek",
                 subject |-> <<"Your", "trip", "receipt">>,
                 body |-> <<"Total: Rp 45.000", "12 Jan 2024, 14:30">>]

PromoMail == [id |-> "m2", from |-> "gojek",
              subject |-> <<"Weekend", "promo">>,
              body |-> <<"50% off your next ride">>]

BankMail == [id |-> "m3", from |-> "bca",
             subject |-> <<"bukti", "transfer">>,
             body |-> <<"Ref 0042">>]

\* A payload without the "id" key.
NoIdMail == [from |-> "newsletter", subject |-> <<"Weekly", "news">>,
             body |-> <<"Hello">>]

Msgs == {RideAReceipt, PromoMail, BankMail, NoIdMail}

\* dict.get(key, default)
DictGet(d, key, default) == IF key \in DOMAIN d THEN d[key] ELSE default

\* The senders and subject words of the default search query.
VendorSenders == {"gojek", "grab", "bca", "mandiri"}
ReceiptKeywords == {"receipt", "bukti", "transfer"}

\* Whether a message is receipt mail of one of the vendors the query names.
MatchesVendor(msg) ==
    /\ DictGet(msg, "from", "") \in VendorSenders
    /\ \E i \in 1..Len(DictGet(msg, "subject", <<>>)) : msg.subject[i] \in ReceiptKeywords

\* The lists of at most n messages.
Batches(n) == UNION {[1..k -> Msgs] : k \in 0..n}

(***************************************************************************)
(* GmailClient.service and GmailClient.fetch_recent_receipts.              *)
(***************************************************************************)
\* The service property without its guard.
ServiceNeverUnset(svc) == FALSE

\* The guard of the service property: authenticate() has not set _service.
ServiceIsUnset(svc) == svc = "None"

\* The whole method on a mailbox holding `found` for the query, with the mail API
\* failing at request number nOk + 1 (never, when nOk is the number of requests).
fetch_recent_receipts(svc, found, nOk) ==
    IF ServiceIsUnset(svc)
    THEN [raised |-> "RuntimeError", issued |-> 0, returned |-> <<>>]
    ELSE IF nOk < 1 + Len(found)
    THEN [raised |-> "HttpError", issued |-> nOk + 1, returned |-> <<>>]
    ELSE [raised |-> "", issued |-> 1 + Len(found), returned |-> found]

FetchRecentReceipts ==
    \E max_results \in 1..MaxResults :
    \E found \in Batches(max_results) :
    \E nOk \in 0..(1 + Len(found)) :
        LET r == fetch_recent_receipts(_service, found, nOk) IN
        /\ apiRequests + r.issued <= MaxRequests
        /\ apiRequests' = apiRequests + r.issued
        /\ raw_messages' = IF r.raised = "" THEN r.returned ELSE raw_messages
        /\ last' = [op |-> "fetch", raised |-> r.raised, path |-> "",
                    wrote |-> FALSE, creds |-> NoCreds]
        /\ UNCHANGED <<tokenFile, credentialsFile, _service>>

(***************************************************************************)
(* ReceiptParser.parse: what it returns, what it logs, what it raises and  *)
(* the message dict as the call leaves it.                                 *)
(***************************************************************************)
NoneOutcome == [kind |-> "None"]

\* parse reading the id with setdefault, which stores the default in the dict.
parseSetDefault(raw_message) ==
    [raised |-> "", result |-> NoneOutcome,
     logged |-> DictGet(raw_message, "id", "unknown"),
     msg    |-> IF "id" \in DOMAIN raw_message THEN raw_message
                ELSE [k \in DOMAIN raw_message \cup {"id"} |->
                        IF k = "id" THEN "unknown" ELSE raw_message[k]]]

\* parse reading the id with raw_message["id"], which raises KeyError.
parseSubscript(raw_message) ==
    IF "id" \in DOMAIN raw_message
    THEN [raised |-> "", result |-> NoneOutcome, logged |-> raw_message.id,
          msg |-> raw_message]
    ELSE [raised |-> "KeyError", result |-> NoneOutcome, logged |-> "",
          msg |-> raw_message]

\* parse reporting mail of no vendor as malformed.
parseRejectUnknown(raw_message) ==
    [raised |-> "",
     result |-> IF MatchesVendor(raw_message) THEN NoneOutcome
                ELSE [kind |-> "Malformed"],
     logged |-> DictGet(raw_message, "id", "unknown"),
     msg    |-> raw_message]

\* ReceiptParser.parse: warn with the message id, return None.
parse(raw_message) ==
    [raised |-> "", result |-> NoneOutcome,
     logged |-> DictGet(raw_message, "id", "unknown"),
     msg    |-> raw_message]

(***************************************************************************)
(* main(): authenticate, fetch, then parse each message in turn.           *)
(***************************************************************************)
MainAuthenticate ==
    /\ pc = "authenticate"
    /\ Authenticate
    /\ pc' = IF last'.raised = "" THEN "fetch" ELSE "auth_raised"
    /\ UNCHANGED <<idx, outcomes, warnings>>

MainFetch ==
    /\ pc = "fetch"
    /\ FetchRecentReceipts
    /\ pc' = IF last'.raised = "" THEN "parse" ELSE "fetch_raised"
    /\ UNCHANGED <<idx, outcomes, warnings>>

MainParse ==
    /\ pc = "parse"
    /\ idx <= Len(raw_messages)
    /\ LET r == parse(raw_messages[idx]) IN
        /\ raw_messages' = [raw_messages EXCEPT ![idx] = r.msg]
        /\ IF r.raised # ""
           THEN /\ pc' = "parse_raised"
                /\ UNCHANGED <<idx, outcomes, warnings>>
           ELSE /\ pc' = pc
                /\ idx' = idx + 1
                /\ outcomes' = Append(outcomes, r.result)
                /\ warnings' = Append(warnings, r.logged)
    /\ UNCHANGED <<tokenFile, credentialsFile, _service, apiRequests, last>>

MainDone ==
    /\ pc = "parse"
    /\ idx > Len(raw_messages)
    /\ pc' = "done"
    /\ UNCHANGED <<idx, outcomes, warnings>>
    /\ UNCHANGED clientVars


(***************************************************************************)
(* The Transaction model: pydantic validates the keyword arguments of      *)
(* Transaction(...) and either builds the object or raises ValidationError *)
(* naming the fields that failed. Amounts are whole numbers of the         *)
(* currency; dates are ISO-8601 strings.                                   *)
(***************************************************************************)
TransactionSource == {"gojek", "grab", "bank_transfer", "unknown"}

TxnFields == {"source", "description", "amount", "currency", "transaction_date",
              "email_id", "raw_subject"}

TxnRequired == {"description", "amount", "transaction_date", "email_id"}

TxnDefaults == [source |-> "unknown", currency |-> "IDR", raw_subject |-> ""]

\* The field errors of Transaction(**kwargs).
TxnErrors(kwargs) ==
    {f \in TxnRequired : f \notin DOMAIN kwargs}
    \cup {f \in {"source"} : f \in DOMAIN kwargs /\ kwargs[f] \notin TransactionSource}
    \cup {f \in {"description"} : f \in DOMAIN kwargs /\ Len(kwargs[f]) < 1}
    \cup {f \in {"currency"} : f \in DOMAIN kwargs /\ Len(kwargs[f]) > 3}

\* Transaction(**kwargs)
Transaction(kwargs) ==
    IF TxnErrors(kwargs) # {}
    THEN [kind |-> "ValidationError", fields |-> TxnErrors(kwargs)]
    ELSE [kind |-> "Transaction",
          value |-> [f \in TxnFields |->
                        IF f \in DOMAIN kwargs THEN kwargs[f] ELSE TxnDefaults[f]]]

\* The keyword arguments tried: every subset of the fields, with these values.
TxnValues == [source : {"gojek", "grab", "paypal"},
              description : {"", "Trip to office"},
              amount : (0 - MaxAmount)..MaxAmount,
              currency : {"IDR", "USD", "RUPIAH"},
              transaction_date : {"2024-01-12T14:30:00+07:00"},
              email_id : {"m1"},
              raw_subject : {"Your trip receipt"}]

NewTransaction ==
    \E given \in SUBSET TxnFields :
    \E full \in TxnValues :
        /\ txn' = Transaction([f \in given |-> full[f]])
        /\ UNCHANGED <<settings, settingsEnv>>
        /\ UNCHANGED clientVars
        /\ UNCHANGED mainVars

(***************************************************************************)
(* Settings: each field is taken from the process environment, else from   *)
(* the .env file, else from its default. Keys that are no field are        *)
(* ignored. The API URL is a sequence of characters.                       *)
(***************************************************************************)
SettingsFields == {"google_credentials_path", "google_token_path",
                   "moneymate_api_url", "log_level"}

\* Defaults with another log level and a numeric host.
SettingsDefaultsDebug ==
    [google_credentials_path |-> "credentials.json",
     google_token_path |-> "token.json",
     moneymate_api_url |-> <<"h","t","t","p",":","/","/","1","2","7",".","0",".","0",".","1",
                             ":","3","0","0","0","/","a","p","i">>,
     log_level |-> "DEBUG"]

\* The defaults of the class body.
SettingsDefaults ==
    [google_credentials_path |-> "credentials.json",
     google_token_path |-> "token.json",
     moneymate_api_url |-> <<"h","t","t","p",":","/","/","l","o","c","a","l","h","o","s","t",
                             ":","3","0","0","0","/","a","p","i">>,
     log_level |-> "INFO"]

\* Settings(), given the .env file and the environment as dicts.
Settings(dotenv, environ) ==
    [f \in SettingsFields |->
        IF f \in DOMAIN environ THEN environ[f]
        ELSE IF f \in DOMAIN dotenv THEN dotenv[f]
        ELSE SettingsDefaults[f]]

\* x in s, for sequences of characters
Contains(s, x) ==
    \E i \in 1..(Len(s) - Len(x) + 1) : SubSeq(s, i, i + Len(x) - 1) = x

\* The .env files and environments tried: any subset of these assignments.
DotenvValues ==
    [google_credentials_path |-> "secrets/client.json",
     google_token_path |-> "secrets/token.json",
     moneymate_api_url |-> <<"h","t","t","p","s",":","/","/","m","m",".","i","d">>,
     log_level |-> "WARNING",
     unrelated_key |-> "x"]

EnvironValues ==
    [google_credentials_path |-> "/run/client.json",
     google_token_path |-> "/run/token.json",
     moneymate_api_url |-> <<"h","t","t","p",":","/","/","a","p","i",":","8","0">>,
     log_level |-> "DEBUG"]

SettingsEnvs ==
    {[dotenv  |-> [k \in d |-> DotenvValues[k]],
      environ |-> [k \in e |-> EnvironValues[k]]] :
        d \in SUBSET (DOMAIN DotenvValues), e \in SUBSET (DOMAIN EnvironValues)}

NewSettings ==
    \E env \in SettingsEnvs :
        /\ settings' = Settings(env.dotenv, env.environ)
        /\ settingsEnv' = env
        /\ UNCHANGED txn
        /\ UNCHANGED clientVars
        /\ UNCHANGED mainVars

(***************************************************************************)
(* The specifications.                                                     *)
(***************************************************************************)
NoCall == [op |-> "", raised |-> "", path |-> "", wrote |-> FALSE, creds |-> NoCreds]
NoEnv  == [dotenv |-> <<>>, environ |-> <<>>]

\* A new GmailClient, on any state of the two files.
InitClient ==
    /\ tokenFile \in TokenFiles
    /\ credentialsFile \in BOOLEAN
    /\ _service = "None"
    /\ apiRequests = 0
    /\ raw_messages = <<>>
    /\ last = NoCall

InitLoop ==
    /\ idx = 1
    /\ outcomes = <<>>
    /\ warnings = <<>>

InitModels ==
    /\ txn = NoneOutcome
    /\ settings = Settings(NoEnv.dotenv, NoEnv.environ)
    /\ settingsEnv = NoEnv

\* The client's operations, in any order.
Init == InitClient /\ InitLoop /\ InitModels /\ pc = "client"

Next ==
    \/ Authenticate /\ UNCHANGED mainVars /\ UNCHANGED modelVars
    \/ FetchRecentReceipts /\ UNCHANGED mainVars /\ UNCHANGED modelVars

Spec == Init /\ [][Next]_vars

\* One run of main(). The function runs to its end or to an exception.
InitMain == InitClient /\ InitLoop /\ InitModels /\ pc = "authenticate"

NextMain ==
    \/ MainAuthenticate /\ UNCHANGED modelVars
    \/ MainFetch /\ UNCHANGED modelVars
    \/ MainParse /\ UNCHANGED modelVars
    \/ MainDone /\ UNCHANGED modelVars

SpecMain == InitMain /\ [][NextMain]_vars /\ WF_vars(NextMain)

\* Transaction objects built from any keyword arguments.
InitTransaction ==
    /\ tokenFile = [kind |-> "absent", creds |-> NoCreds]
    /\ credentialsFile = FALSE
    /\ _service = "None" /\ apiRequests = 0 /\ raw_messages = <<>> /\ last = NoCall
    /\ InitLoop /\ InitModels /\ pc = "models"

SpecTransaction == InitTransaction /\ [][NewTransaction]_vars

\* Settings objects built under any .env file and environment; the first is the
\* module's singleton.
InitSettings ==
    /\ tokenFile = [kind |-> "absent", creds |-> NoCreds]
    /\ credentialsFile = FALSE
    /\ _service = "None" /\ apiRequests = 0 /\ raw_messages = <<>> /\ last = NoCall
    /\ InitLoop /\ pc = "models"
    /\ txn = NoneOutcome
    /\ settingsEnv \in SettingsEnvs
    /\ settings = Settings(settingsEnv.dotenv, settingsEnv.environ)

SpecSettings == InitSettings /\ [][NewSettings]_vars


(***************************************************************************)
(* The claims.                                                             *)
(***************************************************************************)

\* C1: every message that matches no vendor format is given the 'unrecognised'
\* outcome (None) by parse: never a 'malformed' outcome, and parse never raises on
\* such a message. Checked under SpecMain.
UnrecognisedIsNone ==
    /\ \A i \in 1..Len(outcomes) :
          ~MatchesVendor(raw_messages[i]) => outcomes[i] = NoneOutcome
    /\ (pc = "parse_raised" => MatchesVendor(raw_messages[idx]))

\* C1 witness: a finished run whose batch held a vendor's promotional mail and a
\* non-vendor mail, both given None.
UnrecognisedSeen ==
    /\ pc = "done"
    /\ raw_messages = <<PromoMail, NoIdMail>>
    /\ outcomes = <<NoneOutcome, NoneOutcome>>

\* C2: once a batch of N messages is fetched, the run reaches its end with parse
\* having been called on every message and exactly one outcome per message; no
\* message makes parse raise and cut the loop short. Checked under SpecMain.
BatchRunsToDone ==
    [](pc = "parse" => <>(pc = "done" /\ Len(outcomes) = Len(raw_messages)
                                      /\ Len(warnings) = Len(raw_messages)))

\* C2 witness: a finished run over a full batch that holds a payload without id.
BatchWithBadMessageDone ==
    /\ pc = "done"
    /\ Len(raw_messages) >= 2
    /\ \E i \in 1..Len(raw_messages) : "id" \notin DOMAIN raw_messages[i]
    /\ Len(outcomes) = Len(raw_messages)

\* C3 (as stated): parsing the ride-hailing-A receipt "Your trip receipt" with
\* "Total: Rp 45.000" and "12 Jan 2024, 14:30" yields a Transaction with that
\* source, amount 45000 IDR, date 2024-01-12T14:30:00+07:00 and a non-empty
\* description. Checked under SpecMain.
RideAReceiptParsed ==
    \A i \in 1..Len(outcomes) :
        raw_messages[i] = RideAReceipt =>
            /\ outcomes[i].kind = "Transaction"
            /\ outcomes[i].value.source = "gojek"
            /\ outcomes[i].value.amount = 45000
            /\ outcomes[i].value.currency = "IDR"
            /\ outcomes[i].value.transaction_date = "2024-01-12T14:30:00+07:00"
            /\ Len(outcomes[i].value.description) >= 1

\* C4 (as stated): no Transaction that was built holds a negative amount: a
\* construction with a negative amount is rejected. Checked under SpecTransaction.
AmountNonNegative ==
    txn.kind = "Transaction" => txn.value.amount >= 0

NeedsConsent(tf) ==
    \/ tf.kind = "absent"
    \/ /\ tf.kind = "token"
       /\ ~(tf.creds.token /\ ~tf.creds.expired)
       /\ ~(tf.creds.expired /\ tf.creds.refresh)

\* C6: authenticate takes one path, decided by the cached token: a valid token
\* is reused; an expired token with a refresh token is refreshed; with no token
\* file, or a token neither valid nor refreshable, the consent branch is taken.
\* Checked under Spec.
OnePathPerTokenState ==
    [][last'.op = "authenticate" =>
          /\ (tokenFile.kind = "token" /\ tokenFile.creds.token /\ ~tokenFile.creds.expired)
                => last'.path = "reuse"
          /\ (tokenFile.kind = "token" /\ tokenFile.creds.expired /\ tokenFile.creds.refresh)
                => last'.path = "refresh"
          /\ NeedsConsent(tokenFile) => last'.path = "consent"]_vars

\* C6 witness: an expired token with a refresh token was refreshed and stored.
RefreshedToken ==
    /\ last.op = "authenticate"
    /\ last.path = "refresh"
    /\ last.raised = ""
    /\ tokenFile.kind = "token" /\ tokenFile.creds.token /\ ~tokenFile.creds.expired

\* C7: fetch_recent_receipts on a client whose _service is unset raises
\* RuntimeError and issues no request; a request is issued only with _service
\* set, and _service is set only by an authenticate() that raised nothing.
\* Checked under Spec.
NoRequestBeforeAuthenticate ==
    [][/\ (apiRequests' > apiRequests => _service = "Resource")
       /\ (last'.op = "fetch" /\ _service = "None") =>
              /\ last'.raised = "RuntimeError"
              /\ apiRequests' = apiRequests
              /\ raw_messages' = raw_messages
       /\ (_service' # _service) =>
              /\ last'.op = "authenticate"
              /\ last'.raised = ""
              /\ _service' = "Resource"]_vars

\* C7 witness: a fetch on an unauthenticated client raised RuntimeError with no
\* request issued.
FetchRefused ==
    /\ last.op = "fetch"
    /\ last.raised = "RuntimeError"
    /\ _service = "None"
    /\ apiRequests = 0

\* C8: a Settings object built with no .env file and no overriding environment
\* variable has credentials.json, token.json, log level INFO and an API URL that
\* contains "localhost". Checked under SpecSettings.
DefaultSettings ==
    (DOMAIN settingsEnv.dotenv = {} /\ DOMAIN settingsEnv.environ = {}) =>
        /\ settings.google_credentials_path = "credentials.json"
        /\ settings.google_token_path = "token.json"
        /\ settings.log_level = "INFO"
        /\ Contains(settings.moneymate_api_url, <<"l","o","c","a","l","h","o","s","t">>)

\* C8 witness: a Settings object built from an empty .env and environment.
BuiltWithoutEnv ==
    /\ DOMAIN settingsEnv.dotenv = {}
    /\ DOMAIN settingsEnv.environ = {}
    /\ DOMAIN settings = SettingsFields

\* C9: when authenticate needs the consent flow and the credentials file does
\* not exist it raises FileNotFoundError and changes nothing: the token file and
\* _service stay as they were; and the token file is written only when
\* authenticate holds credentials. Checked under Spec.
MissingCredentialsChangeNothing ==
    [][last'.op = "authenticate" =>
          /\ (NeedsConsent(tokenFile) /\ ~credentialsFile) =>
                /\ last'.raised = "FileNotFoundError"
                /\ tokenFile' = tokenFile
                /\ _service' = _service
                /\ ~last'.wrote
          /\ last'.wrote => (last'.creds.some /\ last'.raised \in {"", "BuildError"})
          /\ (tokenFile' # tokenFile) => last'.wrote]_vars

\* C9 witness: FileNotFoundError with an unusable token file still in place and
\* the client unauthenticated.
MissingCredentialsSeen ==
    /\ last.op = "authenticate"
    /\ last.raised = "FileNotFoundError"
    /\ tokenFile.kind = "token"
    /\ ~credentialsFile
    /\ _service = "None"

=============================================================================
